---- MODULE Spec2Model ----
(***************************************************************************)
(* The vhost-net device of src/vmm/src/devices/virtio/net/vhost/device.rs: *)
(* tap validation, feature negotiation, offload translation, the backend   *)
(* handle lifecycle and the activation state machine.                      *)
(*                                                                         *)
(* A u64 / u32 bitmask is modelled as the set of the positions of its set  *)
(* bits: x & y is x \cap y, x | y is x \cup y, 1 << k is {k}, and          *)
(* x & m == 0 is x \cap m = {}.  Vec indices are 0-based in the source and *)
(* the model keeps them 0-based (idx), reading element idx of a sequence   *)
(* as s[idx + 1].                                                          *)
(***************************************************************************)
EXTENDS Integers, Sequences, FiniteSets, TLC

VARIABLES
    pc,               \* position of the control thread
    queue_sizes,      \* argument of new_with_tap
    mac_arg,          \* argument guest_mac of new_with_tap
    mq_flags,         \* if_flags of the taps into_mq_taps will hand out
    new_result,       \* Result returned by new_with_tap
    taps, avail_features, acked_features, handles, queues, queue_evts,
    rx_rate_limiter, tx_rate_limiter, irq_status, config_space, guest_mac,
    device_state, activate_evt,
    mem, vq_pairs, idx, backend_features, features,   \* locals of activate
    calls,            \* backend and tap calls issued by the latest activate
    do_result,        \* value of do_device_activate in the latest activate
    activate_ret,     \* value the latest activate returned to its caller
    cfg_call,         \* the latest call of write_config: its arguments
    xlate,            \* a call of virtio_features_to_tap_offload
    vtap              \* a call of validate_and_configure_tap

vars == <<pc, queue_sizes, mac_arg, mq_flags, new_result, taps, avail_features,
          acked_features, handles, queues, queue_evts, rx_rate_limiter,
          tx_rate_limiter, irq_status, config_space, guest_mac, device_state,
          activate_evt, mem, vq_pairs, idx, backend_features, features, calls,
          do_result, activate_ret, cfg_call, xlate, vtap>>

dev_vars == <<pc, queue_sizes, mac_arg, mq_flags, new_result, taps,
              avail_features, acked_features, handles, queues, queue_evts,
              rx_rate_limiter, tx_rate_limiter, irq_status, config_space,
              guest_mac, device_state, activate_evt, mem, vq_pairs, idx,
              backend_features, features, calls, do_result, activate_ret,
              cfg_call>>

----------------------------------------------------------------------------
(* Bounds of the model *)

\* longest queue-size list handed to new_with_tap
MaxQueueSizes == 5

\* most queue pairs validate_and_configure_tap is called with on its own
MaxVqPairs == 3

\* bits the u64 offset of write_config is scaled down to
OffsetBits == 8

----------------------------------------------------------------------------
(* Program constants.  The feature bit positions, the TUN_F_ and IFF_ masks *)
(* and the header length are those of the generated bindings device.rs     *)
(* imports at lines 17 and 24-26.                                          *)

VIRTIO_NET_F_CSUM == 0
VIRTIO_NET_F_GUEST_CSUM == 1
VIRTIO_NET_F_GUEST_TSO4 == 7
VIRTIO_NET_F_GUEST_TSO6 == 8
VIRTIO_NET_F_GUEST_ECN == 9
VIRTIO_NET_F_GUEST_UFO == 10
VIRTIO_NET_F_HOST_TSO4 == 11
VIRTIO_NET_F_HOST_UFO == 14
VIRTIO_NET_F_MRG_RXBUF == 15
VIRTIO_NET_F_CTRL_VQ == 17
VIRTIO_NET_F_MQ == 22
VIRTIO_F_NOTIFY_ON_EMPTY == 24
VIRTIO_RING_F_INDIRECT_DESC == 28
VIRTIO_RING_F_EVENT_IDX == 29
VIRTIO_F_VERSION_1 == 32

DEFAULT_MTU == 1500

\* the size every queue is built with
QueueSize == 256

\* masks of gen::, as the sets of their bits (0x01, 0x02, 0x04, 0x08, 0x10)
TUN_F_CSUM == {0}
TUN_F_TSO4 == {1}
TUN_F_TSO6 == {2}
TUN_F_TSO_ECN == {3}
TUN_F_UFO == {4}

\* interface flags of gen:: (0x0002, 0x0100, 0x1000, 0x4000)
IFF_TAP == {1}
IFF_MULTI_QUEUE == {8}
IFF_NO_PI == {12}
IFF_VNET_HDR == {14}
\* a flag validation does not look at (0x2000)
IFF_ONE_QUEUE == {13}

\* size of the virtio-net header, in bytes
vnet_hdr_len == 12

----------------------------------------------------------------------------
(* Results *)

Ok == [tag |-> "Ok", err |-> "none", detail |-> <<>>]
Err(kind, detail) == [tag |-> "Err", err |-> kind, detail |-> detail]
NoResult == [tag |-> "none", err |-> "none", detail |-> <<>>]

Inactive == [tag |-> "Inactive", mem |-> "none"]
Activated(m) == [tag |-> "Activated", mem |-> m]

\* DeviceState::is_activated
is_activated == device_state.tag = "Activated"

----------------------------------------------------------------------------
(* virtio_features_to_tap_offload, device.rs:233-253 *)

virtio_features_to_tap_offload_EcnAsTso6(f) ==
    (IF VIRTIO_NET_F_GUEST_CSUM \in f THEN TUN_F_CSUM ELSE {})
    \cup (IF VIRTIO_NET_F_GUEST_TSO4 \in f THEN TUN_F_TSO4 ELSE {})
    \cup (IF VIRTIO_NET_F_GUEST_TSO6 \in f THEN TUN_F_TSO6 ELSE {})
    \cup (IF VIRTIO_NET_F_GUEST_ECN \in f THEN TUN_F_TSO6 ELSE {})
    \cup (IF VIRTIO_NET_F_GUEST_UFO \in f THEN TUN_F_UFO ELSE {})

virtio_features_to_tap_offload(f) ==
    (IF f \cap {VIRTIO_NET_F_GUEST_CSUM} # {} THEN TUN_F_CSUM ELSE {})
    \cup (IF f \cap {VIRTIO_NET_F_GUEST_TSO4} # {} THEN TUN_F_TSO4 ELSE {})
    \cup (IF f \cap {VIRTIO_NET_F_GUEST_TSO6} # {} THEN TUN_F_TSO6 ELSE {})
    \cup (IF f \cap {VIRTIO_NET_F_GUEST_ECN} # {} THEN TUN_F_TSO_ECN ELSE {})
    \cup (IF f \cap {VIRTIO_NET_F_GUEST_UFO} # {} THEN TUN_F_UFO ELSE {})

----------------------------------------------------------------------------
(* validate_and_configure_tap, device.rs:42-81 *)

\* a tap as the Tap collaborator hands it out, not yet configured
NewTap(flags) == [if_flags |-> flags, offload |-> {}, vnet_hdr_size |-> 0]

\* TUN_F_CSUM | TUN_F_UFO | TUN_F_TSO4 | TUN_F_TSO6, device.rs:75
FullOffload == TUN_F_CSUM \cup TUN_F_UFO \cup TUN_F_TSO4 \cup TUN_F_TSO6

\* device.rs:45-52
required_flags(n) ==
    << [value |-> IFF_TAP, name |-> "IFF_TAP"],
       [value |-> IFF_NO_PI, name |-> "IFF_NO_PI"],
       [value |-> IFF_VNET_HDR, name |-> "IFF_VNET_HDR"] >>
    \o (IF n > 1
        THEN << [value |-> IFF_MULTI_QUEUE, name |-> "IFF_MULTI_QUEUE"] >>
        ELSE << >>)

RECURSIVE MapNames(_)
MapNames(s) == IF s = << >> THEN << >> ELSE <<Head(s).name>> \o MapNames(Tail(s))

missing_flags_FirstOnly(flags, n) ==
    LET IsMissing(r) == r.value \cap flags = {}
        all == MapNames(SelectSeq(required_flags(n), IsMissing))
    IN  IF all = << >> THEN << >> ELSE <<Head(all)>>

\* device.rs:53-64: the names of the required flags the tap does not carry
missing_flags(flags, n) ==
    LET IsMissing(r) == r.value \cap flags = {}
    IN  MapNames(SelectSeq(required_flags(n), IsMissing))

\* [&str]::join: the pieces with the separator between neighbours
RECURSIVE Join(_, _)
Join(s, sep) ==
    IF s = << >> THEN << >>
    ELSE IF Len(s) = 1 THEN s
    ELSE <<Head(s), sep>> \o Join(Tail(s), sep)

\* The result, the tap afterwards and the tap calls made, in order.
\* offload_ok and hdr_ok are the outcomes of the two tap calls, when made.
validate_and_configure_tap(tap, n, offload_ok, hdr_ok) ==
    LET missing == missing_flags(tap.if_flags, n)
    IN  IF missing # << >>
        THEN [result |-> Err("MissingFlags", Join(missing, ", ")),
              tap |-> tap, called |-> << >>]
        ELSE IF ~offload_ok
        THEN [result |-> Err("TapSetOffload", << >>),
              tap |-> tap, called |-> <<"set_offload">>]
        ELSE IF ~hdr_ok
        THEN [result |-> Err("TapSetVnetHdrSize", << >>),
              tap |-> [tap EXCEPT !.offload = FullOffload],
              called |-> <<"set_offload", "set_vnet_hdr_size">>]
        ELSE [result |-> Ok,
              tap |-> [tap EXCEPT !.offload = FullOffload,
                                  !.vnet_hdr_size = vnet_hdr_len],
              called |-> <<"set_offload", "set_vnet_hdr_size">>]

----------------------------------------------------------------------------
(* Net::new_with_tap, device.rs:112-176 *)

\* device.rs:129-139
BaseFeatures ==
    { VIRTIO_NET_F_GUEST_CSUM, VIRTIO_NET_F_CSUM, VIRTIO_NET_F_GUEST_TSO4,
      VIRTIO_NET_F_GUEST_UFO, VIRTIO_NET_F_HOST_TSO4, VIRTIO_NET_F_HOST_UFO,
      VIRTIO_NET_F_MRG_RXBUF, VIRTIO_RING_F_INDIRECT_DESC,
      VIRTIO_RING_F_EVENT_IDX, VIRTIO_F_NOTIFY_ON_EMPTY, VIRTIO_F_VERSION_1 }

NewAvailFeatures_MqAlways(n) ==
    BaseFeatures \cup
    (IF n > 0 THEN {VIRTIO_NET_F_MQ, VIRTIO_NET_F_CTRL_VQ} ELSE {})

\* device.rs:129-143
NewAvailFeatures(n) ==
    BaseFeatures \cup
    (IF n > 1 THEN {VIRTIO_NET_F_MQ, VIRTIO_NET_F_CTRL_VQ} ELSE {})

\* Option<MacAddr>: the argument "None" or a name of an address
ZeroMac == <<0, 0, 0, 0, 0, 0>>

MacOption(mac) ==
    IF mac = "None" THEN [some |-> FALSE, mac |-> ZeroMac]
    ELSE [some |-> TRUE, mac |-> <<18, 52, 86, 120, 154, 188>>]

\* ConfigSpace::setup_config_space: the block it fills and the feature set
\* it leaves in *avail_features
setup_config_space(mac, avail, n, mtu) ==
    [config |-> [guest_mac |-> MacOption(mac).mac, status |-> 0,
                 max_virtqueue_pairs |-> n, mtu |-> mtu],
     avail_features |-> avail]

\* Tap::into_mq_taps: one tap per queue pair
into_mq_taps(flags, n) == [i \in 1..n |-> NewTap(flags[i])]

\* the loop of device.rs:125-127 over taps k.., stopping at the first error;
\* tap number fail_at (0: none) has its call `which` fail
RECURSIVE ValidateTaps(_, _, _, _, _)
ValidateTaps(ts, k, n, fail_at, which) ==
    IF k > Len(ts) THEN [result |-> Ok, taps |-> ts]
    ELSE LET r == validate_and_configure_tap(
                      ts[k], n,
                      ~(fail_at = k /\ which = "set_offload"),
                      ~(fail_at = k /\ which = "set_vnet_hdr_size"))
         IN  IF r.result.tag = "Err"
             THEN [result |-> r.result, taps |-> [ts EXCEPT ![k] = r.tap]]
             ELSE ValidateTaps([ts EXCEPT ![k] = r.tap], k + 1, n, fail_at, which)

----------------------------------------------------------------------------
(* Inputs the environment supplies *)

\* interface flag sets a tap may report
TapFlagChoices ==
    { IFF_TAP \cup IFF_NO_PI \cup IFF_VNET_HDR \cup IFF_MULTI_QUEUE,
      IFF_TAP \cup IFF_NO_PI \cup IFF_VNET_HDR \cup IFF_ONE_QUEUE,
      IFF_VNET_HDR }

\* guest memory handles given to activate
Mems == {"mem1", "mem2"}

\* arguments given to set_acked_features
AckedChoices ==
    { {},
      {VIRTIO_NET_F_GUEST_CSUM, VIRTIO_NET_F_GUEST_TSO4, VIRTIO_F_VERSION_1},
      {VIRTIO_NET_F_GUEST_CSUM, VIRTIO_NET_F_GUEST_TSO6, VIRTIO_NET_F_GUEST_ECN,
       VIRTIO_NET_F_GUEST_UFO, VIRTIO_NET_F_MQ} }

\* feature sets a backend handle may report from get_features
BackendFeatureChoices ==
    { {VIRTIO_NET_F_GUEST_TSO4, VIRTIO_NET_F_MRG_RXBUF, VIRTIO_F_VERSION_1},
      {VIRTIO_NET_F_GUEST_CSUM, VIRTIO_NET_F_GUEST_UFO, VIRTIO_NET_F_MRG_RXBUF,
       VIRTIO_RING_F_INDIRECT_DESC, VIRTIO_F_VERSION_1, 63} }

MacChoices == {"None", "mac1"}

----------------------------------------------------------------------------
(* Construction *)

NoDevice ==
    /\ taps = << >> /\ avail_features = {} /\ acked_features = {}
    /\ handles = << >> /\ queues = << >> /\ queue_evts = << >>
    /\ rx_rate_limiter = "none" /\ tx_rate_limiter = "none"
    /\ irq_status = 0 /\ config_space = "none"
    /\ guest_mac = MacOption("None")
    /\ device_state = Inactive /\ activate_evt = 0

NoActivation ==
    /\ mem = "none" /\ vq_pairs = 0 /\ idx = 0
    /\ backend_features = {} /\ features = {} /\ calls = << >>
    /\ do_result = NoResult /\ activate_ret = NoResult

NoCfgCall == [st |-> "none", offset |-> 0, data |-> << >>]

NoXlate == [st |-> "none", features |-> {}, out |-> {}]

NoVtap == [st |-> "none", tap |-> NewTap({}), n |-> 0, offload_ok |-> TRUE,
           hdr_ok |-> TRUE, result |-> NoResult, tap_out |-> NewTap({}),
           called |-> << >>]

Init ==
    /\ pc = "new"
    /\ \E n \in 2..MaxQueueSizes :
          /\ queue_sizes = [i \in 1..n |-> QueueSize]
          /\ mq_flags \in [1..(n \div 2) -> TapFlagChoices]
    /\ mac_arg \in MacChoices
    /\ new_result = NoResult
    /\ NoDevice
    /\ NoActivation
    /\ cfg_call = NoCfgCall
    /\ xlate = NoXlate
    /\ vtap = NoVtap

NewQueueEvts_PerPair(sizes) == [i \in 1..(Len(sizes) \div 2) |-> "eventfd"]

\* device.rs:153-158: one EventFd is pushed with every queue
NewQueueEvts(sizes) == [i \in 1..Len(sizes) |-> "eventfd"]

\* Net::new_with_tap fails: no device exists
NewFails(e) ==
    /\ pc' = "failed"
    /\ new_result' = e
    /\ UNCHANGED <<taps, avail_features, acked_features, handles, queues,
                   queue_evts, rx_rate_limiter, tx_rate_limiter, irq_status,
                   config_space, guest_mac, device_state, activate_evt>>

\* Net::new_with_tap, device.rs:112-176
new_with_tap ==
    /\ pc = "new"
    /\ \E tap_open_ok \in BOOLEAN, evt_ok \in BOOLEAN,
          fail_at \in 0..(Len(queue_sizes) \div 2),
          which \in {"set_offload", "set_vnet_hdr_size"} :
          LET n == Len(queue_sizes) \div 2
              v == ValidateTaps(into_mq_taps(mq_flags, n), 1, n, fail_at, which)
              cs == setup_config_space(mac_arg, NewAvailFeatures(n), n, DEFAULT_MTU)
          IN  IF ~tap_open_ok THEN NewFails(Err("TapOpen", << >>))
              ELSE IF v.result.tag = "Err" THEN NewFails(v.result)
              ELSE IF ~evt_ok THEN NewFails(Err("EventFd", << >>))
              ELSE /\ pc' = "idle"
                   /\ new_result' = Ok
                   /\ taps' = v.taps
                   /\ avail_features' = cs.avail_features
                   /\ acked_features' = {}
                   /\ handles' = << >>
                   /\ queues' = [i \in 1..Len(queue_sizes) |->
                                    [max_size |-> queue_sizes[i]]]
                   /\ queue_evts' = NewQueueEvts(queue_sizes)
                   /\ rx_rate_limiter' = "rx"
                   /\ tx_rate_limiter' = "tx"
                   /\ irq_status' = 0
                   /\ config_space' = cs.config
                   /\ guest_mac' = MacOption(mac_arg)
                   /\ device_state' = Inactive
                   /\ activate_evt' = 0
    /\ UNCHANGED <<queue_sizes, mac_arg, mq_flags, mem, vq_pairs, idx,
                   backend_features, features, calls, do_result, activate_ret,
                   cfg_call, xlate, vtap>>

Constructed == pc \notin {"new", "failed"}

----------------------------------------------------------------------------
(* Net::set_acked_features, device.rs:264-266 *)

set_acked_features ==
    /\ pc = "idle"
    /\ \E a \in AckedChoices : acked_features' = a
    /\ UNCHANGED <<pc, queue_sizes, mac_arg, mq_flags, new_result, taps,
                   avail_features, handles, queues, queue_evts,
                   rx_rate_limiter, tx_rate_limiter, irq_status, config_space,
                   guest_mac, device_state, activate_evt, mem, vq_pairs, idx,
                   backend_features, features, calls, do_result, activate_ret,
                   cfg_call, xlate, vtap>>

----------------------------------------------------------------------------
(* Net::activate, device.rs:324-338, with do_device_activate, 201-210, and *)
(* setup_vhost_backend, 212-230, one backend or tap call per step          *)

act_frame == <<queue_sizes, mac_arg, mq_flags, new_result, avail_features,
               acked_features, queues, queue_evts, rx_rate_limiter,
               tx_rate_limiter, irq_status, config_space, guest_mac,
               cfg_call, xlate, vtap>>

Call(op, i, ok, val) == [op |-> op, idx |-> i, ok |-> ok, val |-> val]

\* VhostNet::new(mem.clone()), device.rs:204
NewHandle(m) == [mem |-> m, owner |-> FALSE, features_set |-> FALSE,
                 features |-> {}]

NeedsCreate_Always(h) == TRUE

\* device.rs:202
NeedsCreate(h) == h = << >>

NegotiatedFeatures_Union(acked, reported) == acked \cup reported

\* device.rs:222
NegotiatedFeatures(acked, reported) == acked \cap reported

OffloadArg_Negotiated(acked, negotiated) ==
    virtio_features_to_tap_offload(negotiated)

\* device.rs:225
OffloadArg(acked, negotiated) == virtio_features_to_tap_offload(acked)

\* where `for idx in 0..vq_pairs` of device.rs:213-214 goes with idx = i:
\* out of the loop, into the panic of handles[idx], or on to set_owner
LoopHead(i, n, h) ==
    IF i >= n THEN "idle"
    ELSE IF i >= Len(h) THEN "panicked"
    ELSE "set_owner"

ActivateReturn_CommitAlways(res) ==
    /\ pc' = "idle"
    /\ do_result' = res
    /\ activate_ret' = Ok
    /\ device_state' = Activated(mem)
    /\ activate_evt' = activate_evt

\* device.rs:328-337: the value of do_device_activate is dropped, the event
\* is not written, device_state is not assigned, and Ok is returned
ActivateReturn(res) ==
    /\ pc' = "idle"
    /\ do_result' = res
    /\ activate_ret' = Ok
    /\ device_state' = device_state
    /\ activate_evt' = activate_evt

Fail_Retry(op, i) ==
    /\ pc' = pc
    /\ UNCHANGED <<do_result, activate_ret, device_state, activate_evt>>

\* the `?` of a failed backend or tap call in do_device_activate
Fail(op, i) == ActivateReturn(Err("VhostError", <<op, i>>))

\* the loop of setup_vhost_backend reaches index i, the handles being h
Continue(i, h) ==
    LET p == LoopHead(i, vq_pairs, h)
    IN  IF p = "idle"
        THEN ActivateReturn(Ok) /\ idx' = idx
        ELSE /\ pc' = p
             /\ idx' = i
             /\ UNCHANGED <<do_result, activate_ret, device_state, activate_evt>>

\* activate is entered: device.rs:324-328, 201-203, 213
activate ==
    /\ pc = "idle"
    /\ \E m \in Mems : mem' = m
    /\ vq_pairs' = Len(taps)
    /\ calls' = << >>
    /\ backend_features' = {}
    /\ features' = {}
    /\ idx' = 0
    /\ do_result' = NoResult
    /\ activate_ret' = NoResult
    /\ pc' = IF NeedsCreate(handles) THEN "create"
             ELSE LoopHead(0, Len(taps), handles)
    /\ UNCHANGED <<taps, handles, device_state, activate_evt>>
    /\ UNCHANGED act_frame

\* one round of the loop of device.rs:203-206
create_handle ==
    /\ pc = "create"
    /\ \E ok \in BOOLEAN :
          /\ calls' = Append(calls, Call("new", idx, ok, {}))
          /\ IF ok
             THEN /\ handles' = Append(handles, NewHandle(mem))
                  /\ IF idx + 1 < vq_pairs
                     THEN /\ idx' = idx + 1
                          /\ UNCHANGED <<pc, do_result, activate_ret,
                                         device_state, activate_evt>>
                     ELSE Continue(0, Append(handles, NewHandle(mem)))
             ELSE /\ Fail("new", idx)
                  /\ UNCHANGED <<handles, idx>>
    /\ UNCHANGED <<taps, mem, vq_pairs, backend_features, features>>
    /\ UNCHANGED act_frame

set_owner_IgnoreError ==
    /\ pc = "set_owner"
    /\ \E ok \in BOOLEAN :
          /\ calls' = Append(calls, Call("set_owner", idx, ok, {}))
          /\ handles' = IF ok THEN [handles EXCEPT ![idx + 1].owner = TRUE]
                        ELSE handles
    /\ pc' = "get_features"
    /\ UNCHANGED <<do_result, activate_ret, device_state, activate_evt>>
    /\ UNCHANGED <<taps, mem, vq_pairs, idx, backend_features, features>>
    /\ UNCHANGED act_frame

\* device.rs:215-217
set_owner ==
    /\ pc = "set_owner"
    /\ \E ok \in BOOLEAN :
          /\ calls' = Append(calls, Call("set_owner", idx, ok, {}))
          /\ IF ok
             THEN /\ handles' = [handles EXCEPT ![idx + 1].owner = TRUE]
                  /\ pc' = "get_features"
                  /\ UNCHANGED <<do_result, activate_ret, device_state,
                                 activate_evt>>
             ELSE /\ Fail("set_owner", idx)
                  /\ UNCHANGED handles
    /\ UNCHANGED <<taps, mem, vq_pairs, idx, backend_features, features>>
    /\ UNCHANGED act_frame

\* device.rs:221-222
get_features ==
    /\ pc = "get_features"
    /\ \/ \E f \in BackendFeatureChoices :
             /\ calls' = Append(calls, Call("get_features", idx, TRUE, f))
             /\ backend_features' = f
             /\ features' = NegotiatedFeatures(acked_features, f)
             /\ pc' = "set_features"
             /\ UNCHANGED <<do_result, activate_ret, device_state, activate_evt>>
       \/ /\ calls' = Append(calls, Call("get_features", idx, FALSE, {}))
          /\ Fail("get_features", idx)
          /\ UNCHANGED <<backend_features, features>>
    /\ UNCHANGED <<taps, handles, mem, vq_pairs, idx>>
    /\ UNCHANGED act_frame

set_features_StoresAcked ==
    /\ pc = "set_features"
    /\ \E ok \in BOOLEAN :
          /\ calls' = Append(calls, Call("set_features", idx, ok, features))
          /\ IF ok
             THEN /\ handles' = [handles EXCEPT ![idx + 1].features = features,
                                                ![idx + 1].features_set = TRUE]
                  /\ acked_features' = features
                  /\ pc' = "set_offload"
                  /\ UNCHANGED <<do_result, activate_ret, device_state,
                                 activate_evt>>
             ELSE /\ Fail("set_features", idx)
                  /\ UNCHANGED <<handles, acked_features>>
    /\ UNCHANGED <<taps, mem, vq_pairs, idx, backend_features, features>>
    /\ UNCHANGED <<queue_sizes, mac_arg, mq_flags, new_result, avail_features,
                   queues, queue_evts, rx_rate_limiter, tx_rate_limiter,
                   irq_status, config_space, guest_mac, cfg_call, xlate, vtap>>

\* device.rs:223
set_features ==
    /\ pc = "set_features"
    /\ \E ok \in BOOLEAN :
          /\ calls' = Append(calls, Call("set_features", idx, ok, features))
          /\ IF ok
             THEN /\ handles' = [handles EXCEPT ![idx + 1].features = features,
                                                ![idx + 1].features_set = TRUE]
                  /\ pc' = "set_offload"
                  /\ UNCHANGED <<do_result, activate_ret, device_state,
                                 activate_evt>>
             ELSE /\ Fail("set_features", idx)
                  /\ UNCHANGED handles
    /\ UNCHANGED <<taps, mem, vq_pairs, idx, backend_features, features>>
    /\ UNCHANGED act_frame

\* device.rs:224-226, and the next round of the loop
set_offload ==
    /\ pc = "set_offload"
    /\ \E ok \in BOOLEAN :
          LET arg == OffloadArg(acked_features, features)
          IN  /\ calls' = Append(calls, Call("set_offload", idx, ok, arg))
              /\ IF ok
                 THEN /\ taps' = [taps EXCEPT ![idx + 1].offload = arg]
                      /\ Continue(idx + 1, handles)
                 ELSE /\ Fail("set_offload", idx)
                      /\ UNCHANGED <<taps, idx>>
    /\ UNCHANGED <<handles, mem, vq_pairs, backend_features, features>>
    /\ UNCHANGED act_frame

----------------------------------------------------------------------------
(* The device: construction, negotiation, activation *)

Next ==
    \/ new_with_tap
    \/ set_acked_features
    \/ activate
    \/ create_handle
    \/ set_owner
    \/ get_features
    \/ set_features
    \/ set_offload

Spec == Init /\ [][Next]_vars

----------------------------------------------------------------------------
(* The free functions on their own: every input of a bounded set is drawn  *)
(* and the function applied to it                                          *)

\* feature bits drawn for virtio_features_to_tap_offload
XlateBits ==
    { VIRTIO_NET_F_GUEST_CSUM, VIRTIO_NET_F_GUEST_TSO4, VIRTIO_NET_F_GUEST_TSO6,
      VIRTIO_NET_F_GUEST_ECN, VIRTIO_NET_F_GUEST_UFO, VIRTIO_NET_F_CSUM,
      VIRTIO_NET_F_HOST_TSO4, VIRTIO_F_VERSION_1, 63 }

\* interface flag bits drawn for validate_and_configure_tap
VtapFlagBits ==
    IFF_TAP \cup IFF_NO_PI \cup IFF_VNET_HDR \cup IFF_MULTI_QUEUE
    \cup IFF_ONE_QUEUE

FnInit ==
    /\ pc = "none"
    /\ queue_sizes = << >> /\ mq_flags = << >> /\ mac_arg = "None"
    /\ new_result = NoResult
    /\ NoDevice
    /\ NoActivation
    /\ cfg_call = NoCfgCall
    /\ \/ /\ xlate \in {[st |-> "called", features |-> f, out |-> {}] :
                           f \in SUBSET XlateBits}
          /\ vtap = NoVtap
       \/ /\ xlate = NoXlate
          /\ vtap \in {[st |-> "called", tap |-> NewTap(fl), n |-> n,
                        offload_ok |-> o, hdr_ok |-> h, result |-> NoResult,
                        tap_out |-> NewTap(fl), called |-> << >>] :
                          fl \in SUBSET VtapFlagBits, n \in 1..MaxVqPairs,
                          o \in BOOLEAN, h \in BOOLEAN}

\* virtio_features_to_tap_offload is applied
translate ==
    /\ xlate.st = "called"
    /\ xlate' = [xlate EXCEPT !.st = "returned",
                 !.out = virtio_features_to_tap_offload(xlate.features)]
    /\ UNCHANGED vtap
    /\ UNCHANGED dev_vars

\* validate_and_configure_tap is applied
validate ==
    /\ vtap.st = "called"
    /\ LET r == validate_and_configure_tap(vtap.tap, vtap.n, vtap.offload_ok,
                                           vtap.hdr_ok)
       IN  vtap' = [vtap EXCEPT !.st = "returned", !.result = r.result,
                    !.tap_out = r.tap, !.called = r.called]
    /\ UNCHANGED xlate
    /\ UNCHANGED dev_vars

FnNext == translate \/ validate

SpecFn == FnInit /\ [][FnNext]_vars

----------------------------------------------------------------------------
(* Properties *)

\* the calls of the latest activate that failed, by position
FailedCalls == {k \in DOMAIN calls : ~calls[k].ok}

\* the call `op` on queue pair i succeeded in the latest activate
Succeeded(op, i) ==
    \E k \in DOMAIN calls : calls[k].op = op /\ calls[k].idx = i /\ calls[k].ok

\* the call `op` on queue pair i failed in the latest activate
Failed(op, i) ==
    \E k \in DOMAIN calls : calls[k].op = op /\ calls[k].idx = i /\ ~calls[k].ok

\* queue pair i went through set_owner, set_features and the offload sync
LifecycleDone(i) ==
    /\ Succeeded("set_owner", i)
    /\ Succeeded("set_features", i)
    /\ Succeeded("set_offload", i)

\* the handles the latest activate created
CreatedNow == {k \in DOMAIN calls : calls[k].op = "new" /\ calls[k].ok}

\* C1: when activate has returned and every backend step of it succeeded
\* for every queue pair, device_state is Activated(mem) and is_activated()
\* is true.
C1_SuccessActivates ==
    (pc = "idle" /\ do_result = Ok)
        => (device_state = Activated(mem) /\ is_activated)

\* C2: when a step of activation failed, activate returns an error to its
\* caller, and that error is the first failure encountered; it never
\* returns Ok after a failed step.
C2_FailureIsReturned ==
    (pc = "idle" /\ FailedCalls # {})
        => /\ activate_ret.tag = "Err"
           /\ \E k \in FailedCalls :
                 /\ \A j \in FailedCalls : k <= j
                 /\ activate_ret.detail = <<calls[k].op, calls[k].idx>>

\* C3: no partial commit: is_activated() is true only if every queue pair
\* completed set_owner, set_features and the tap offload sync in the latest
\* activation; and when set_owner fails for the second queue pair of a
\* 2-pair device, device_state stays Inactive and is_activated() is false.
C3_NoPartialCommit ==
    Constructed =>
        /\ is_activated => \A i \in 0..(Len(taps) - 1) : LifecycleDone(i)
        /\ (Len(taps) = 2 /\ pc = "idle" /\ Failed("set_owner", 1))
               => (device_state = Inactive /\ ~is_activated)

C3_Witness ==
    /\ pc = "idle"
    /\ Len(taps) = 2
    /\ LifecycleDone(0)
    /\ Failed("set_owner", 1)
    /\ do_result = Err("VhostError", <<"set_owner", 1>>)
    /\ device_state = Inactive

\* C4: handle creation is idempotent: len(handles) never exceeds len(taps),
\* and an activate call that finds handles already there creates no new
\* handle (a handle is only ever added, one at a time, by an activate that
\* was entered with no handles).
C4_IdempotentCreation ==
    /\ [](Len(handles) <= Len(taps))
    /\ [][Len(handles') # Len(handles)
            => /\ Len(handles') = Len(handles) + 1
               /\ Len(handles) = Cardinality(CreatedNow)]_vars

C4_Witness ==
    /\ pc = "idle"
    /\ Len(taps) = 2
    /\ Len(handles) = 2
    /\ calls # << >>
    /\ CreatedNow = {}
    /\ do_result = Ok

\* C5: the value passed to handles[i].set_features is exactly acked_features
\* AND the value handles[i].get_features() returned just before, in the
\* same activation; on success that is the feature set the handle holds.
C5_SetFeaturesIsIntersection ==
    [][(pc = "set_features" /\ pc' # "set_features")
          => LET g == calls[Len(calls)]
                 c == calls'[Len(calls')]
             IN  /\ Len(calls') = Len(calls) + 1
                 /\ g.op = "get_features" /\ g.ok /\ g.idx = idx
                 /\ c.op = "set_features" /\ c.idx = idx
                 /\ c.val = acked_features \cap g.val
                 /\ c.ok => /\ handles'[idx + 1].features_set
                            /\ handles'[idx + 1].features
                                   = acked_features \cap g.val]_vars

C5_Witness ==
    /\ pc = "set_offload"
    /\ idx = 1
    /\ calls[Len(calls)].op = "set_features"
    /\ handles[2].features = acked_features \cap backend_features
    /\ handles[2].features # {}
    /\ handles[2].features # acked_features
    /\ handles[2].features # backend_features
    /\ handles[2].features # avail_features

\* C6: when an activation returns with every step succeeded, the offload
\* bitmask of every tap equals virtio_features_to_tap_offload(acked_features).
C6_OffloadFromAcked ==
    [][(pc # "idle" /\ pc' = "idle" /\ do_result' = Ok)
          => \A i \in 1..Len(taps') :
                taps'[i].offload
                    = virtio_features_to_tap_offload(acked_features')]_vars

C6_Witness ==
    /\ pc = "idle"
    /\ do_result = Ok
    /\ Len(taps) = 2
    /\ \A i \in 1..2 : /\ taps[i].offload = TUN_F_CSUM \cup TUN_F_TSO4
                       /\ VIRTIO_NET_F_GUEST_CSUM \notin handles[i].features
    /\ VIRTIO_NET_F_GUEST_CSUM \in acked_features

\* C7: in every state of a constructed device, acked_features is a subset
\* of avail_features.
C7_AckedSubsetOfAvail ==
    Constructed => acked_features \subseteq avail_features

\* C8: avail_features of a constructed device holds both VIRTIO_NET_F_MQ and
\* VIRTIO_NET_F_CTRL_VQ if len(taps) > 1 and neither if len(taps) == 1.
C8_MqBits ==
    Constructed =>
        /\ Len(taps) > 1
              => {VIRTIO_NET_F_MQ, VIRTIO_NET_F_CTRL_VQ} \subseteq avail_features
        /\ Len(taps) = 1
              => {VIRTIO_NET_F_MQ, VIRTIO_NET_F_CTRL_VQ} \cap avail_features = {}

C8_Witness ==
    /\ pc = "idle"
    /\ Len(taps) = 1
    /\ Len(queues) = 3
    /\ VIRTIO_NET_F_MQ \notin avail_features
    /\ VIRTIO_NET_F_CTRL_VQ \notin avail_features
    /\ VIRTIO_NET_F_GUEST_CSUM \in avail_features

----------------------------------------------------------------------------
(* Properties of the free functions, under SpecFn *)

\* the flags the contract of validate_and_configure_tap requires, by name
RequiredNames(n) ==
    {"IFF_TAP", "IFF_NO_PI", "IFF_VNET_HDR"}
    \cup (IF n > 1 THEN {"IFF_MULTI_QUEUE"} ELSE {})

FlagOfName(name) ==
    CASE name = "IFF_TAP" -> IFF_TAP
      [] name = "IFF_NO_PI" -> IFF_NO_PI
      [] name = "IFF_VNET_HDR" -> IFF_VNET_HDR
      [] name = "IFF_MULTI_QUEUE" -> IFF_MULTI_QUEUE

\* the required flags the tap of the call does not carry
AbsentNames ==
    {nm \in RequiredNames(vtap.n) : FlagOfName(nm) \cap vtap.tap.if_flags = {}}

\* the flag names an error message lists, and its well-formedness: the names
\* at the odd positions, the separator between them, no name twice
NamesIn(msg) == {msg[k] : k \in {j \in DOMAIN msg : j % 2 = 1}}

WellJoined(msg) ==
    /\ Len(msg) % 2 = 1
    /\ \A k \in DOMAIN msg : (k % 2 = 0) => msg[k] = ", "
    /\ Cardinality(NamesIn(msg)) = (Len(msg) + 1) \div 2

\* what the claim says of a tap that misses a required flag
C9_MissingCase ==
    AbsentNames # {} =>
        /\ vtap.result.tag = "Err"
        /\ vtap.result.err = "MissingFlags"
        /\ WellJoined(vtap.result.detail)
        /\ NamesIn(vtap.result.detail) = AbsentNames
        /\ vtap.called = << >>
        /\ vtap.tap_out = vtap.tap

\* C9 as stated: a tap missing a required flag gets MissingFlags naming
\* exactly the absent required flags and no tap call; a tap missing none
\* gets the offload CSUM|UFO|TSO4|TSO6 and the vnet header size, and Ok.
C9_AsStated ==
    vtap.st = "returned" =>
        /\ C9_MissingCase
        /\ AbsentNames = {} =>
              /\ vtap.result = Ok
              /\ vtap.tap_out.offload = FullOffload
              /\ vtap.tap_out.vnet_hdr_size = vnet_hdr_len

\* C9 amended: as stated for a tap missing a required flag; a tap missing
\* none has set_offload(CSUM|UFO|TSO4|TSO6) called, then, if that succeeded,
\* set_vnet_hdr_size; the result is Ok iff both calls succeed, and else
\* TapSetOffload or TapSetVnetHdrSize, whichever call failed first.
C9_ValidateAndConfigure ==
    vtap.st = "returned" =>
        /\ C9_MissingCase
        /\ AbsentNames = {} =>
              /\ vtap.called # << >>
              /\ vtap.called[1] = "set_offload"
              /\ vtap.offload_ok =>
                    /\ vtap.tap_out.offload = FullOffload
                    /\ vtap.called = <<"set_offload", "set_vnet_hdr_size">>
              /\ (vtap.offload_ok /\ vtap.hdr_ok) =>
                    /\ vtap.result = Ok
                    /\ vtap.tap_out.vnet_hdr_size = vnet_hdr_len
              /\ ~vtap.offload_ok =>
                    /\ vtap.result = Err("TapSetOffload", << >>)
                    /\ vtap.called = <<"set_offload">>
                    /\ vtap.tap_out = vtap.tap
              /\ (vtap.offload_ok /\ ~vtap.hdr_ok) =>
                    /\ vtap.result = Err("TapSetVnetHdrSize", << >>)
                    /\ vtap.tap_out.vnet_hdr_size = vtap.tap.vnet_hdr_size

C9_Witness ==
    /\ vtap.st = "returned"
    /\ vtap.n = 2
    /\ vtap.tap.if_flags = IFF_VNET_HDR \cup IFF_ONE_QUEUE
    /\ vtap.result.detail
           = <<"IFF_TAP", ", ", "IFF_NO_PI", ", ", "IFF_MULTI_QUEUE">>
    /\ vtap.called = << >>

\* C10: virtio_features_to_tap_offload maps bit for bit: TUN_F_CSUM,
\* TUN_F_TSO4, TUN_F_TSO6, TUN_F_TSO_ECN and TUN_F_UFO are set in the result
\* iff GUEST_CSUM, GUEST_TSO4, GUEST_TSO6, GUEST_ECN and GUEST_UFO are set in
\* the argument, and no other bit of the result is ever set.
C10_BitForBit ==
    xlate.st = "returned" =>
        /\ TUN_F_CSUM \subseteq xlate.out
              <=> VIRTIO_NET_F_GUEST_CSUM \in xlate.features
        /\ TUN_F_TSO4 \subseteq xlate.out
              <=> VIRTIO_NET_F_GUEST_TSO4 \in xlate.features
        /\ TUN_F_TSO6 \subseteq xlate.out
              <=> VIRTIO_NET_F_GUEST_TSO6 \in xlate.features
        /\ TUN_F_TSO_ECN \subseteq xlate.out
              <=> VIRTIO_NET_F_GUEST_ECN \in xlate.features
        /\ TUN_F_UFO \subseteq xlate.out
              <=> VIRTIO_NET_F_GUEST_UFO \in xlate.features
        /\ xlate.out \subseteq
              TUN_F_CSUM \cup TUN_F_TSO4 \cup TUN_F_TSO6 \cup TUN_F_TSO_ECN
              \cup TUN_F_UFO

C10_Witness ==
    /\ xlate.st = "returned"
    /\ xlate.features = {VIRTIO_NET_F_CSUM, VIRTIO_NET_F_GUEST_ECN,
                         VIRTIO_NET_F_HOST_TSO4, 63}
    /\ xlate.out = TUN_F_TSO_ECN

----------------------------------------------------------------------------
(* Net::write_config, device.rs:308-322.  The call changes nothing of the  *)
(* device, so Spec leaves it out and SpecCfg holds it, with construction.  *)

\* the largest offset: u64::MAX, scaled down to OffsetBits bits
U64Max == 2^OffsetBits - 1

LE16(x) == <<x % 256, x \div 256>>

\* ConfigSpace::as_slice: the bytes of the block
as_slice(cs) ==
    cs.guest_mac \o LE16(cs.status) \o LE16(cs.max_virtqueue_pairs)
    \o LE16(cs.mtu)

\* the block whose bytes are b
from_slice(b) ==
    [guest_mac |-> SubSeq(b, 1, 6), status |-> b[7] + 256 * b[8],
     max_virtqueue_pairs |-> b[9] + 256 * b[10], mtu |-> b[11] + 256 * b[12]]

\* offsets and data the guest writes with
CfgOffsets == {0, 2, 6, 11, 12, 13, U64Max}

CfgData ==
    { << >>, <<7>>, <<1, 2, 3, 4, 5, 6>>, <<9, 8, 7, 6, 5, 4, 3, 2>>,
      <<1, 2, 3, 4, 5, 6, 7, 8, 9, 10, 11, 12, 13>> }

cfg_frame == <<queue_sizes, mac_arg, mq_flags, new_result, taps,
               avail_features, acked_features, handles, queues, queue_evts,
               rx_rate_limiter, tx_rate_limiter, irq_status, device_state,
               activate_evt, mem, vq_pairs, idx, backend_features, features,
               calls, do_result, activate_ret, xlate, vtap>>

\* a write that copies the bytes that fit, as read_config clips its copy
write_config_Clipped ==
    /\ pc = "idle"
    /\ \E offset \in CfgOffsets, data \in CfgData :
          LET old == as_slice(config_space)
              new == [k \in 1..Len(old) |->
                         IF k > offset /\ k <= offset + Len(data)
                         THEN data[k - offset] ELSE old[k]]
          IN  /\ cfg_call' = [st |-> "returned", offset |-> offset,
                              data |-> data]
              /\ config_space' = from_slice(new)
              /\ guest_mac' = [some |-> TRUE, mac |-> SubSeq(new, 1, 6)]
    /\ pc' = "idle"
    /\ UNCHANGED cfg_frame

\* device.rs:308-322: every statement of the body is commented out
write_config ==
    /\ pc = "idle"
    /\ \E offset \in CfgOffsets, data \in CfgData :
          cfg_call' = [st |-> "returned", offset |-> offset, data |-> data]
    /\ pc' = "idle"
    /\ UNCHANGED <<config_space, guest_mac>>
    /\ UNCHANGED cfg_frame

CfgNext == new_with_tap \/ write_config

SpecCfg == Init /\ [][CfgNext]_vars

\* the write of data at offset does not lie within the block: the offset is
\* at or beyond its length, or offset + length exceeds it or overflows
OutOfBlock(offset, data) ==
    \/ offset >= Len(as_slice(config_space))
    \/ offset + Len(data) > Len(as_slice(config_space))
    \/ offset + Len(data) > U64Max

\* C11: a write_config call whose offset is at or beyond the config block
\* length, or whose offset+length exceeds it or overflows, leaves the config
\* block and guest_mac unchanged and returns normally.
C11_OutOfBoundsWriteIsNoOp ==
    [][(pc = "idle" /\ cfg_call' # cfg_call
          /\ OutOfBlock(cfg_call'.offset, cfg_call'.data))
          => /\ config_space' = config_space
             /\ guest_mac' = guest_mac
             /\ pc' = "idle"
             /\ cfg_call'.st = "returned"]_vars

C11_Witness ==
    /\ pc = "idle"
    /\ cfg_call.st = "returned"
    /\ cfg_call.offset = 6
    /\ cfg_call.data = <<9, 8, 7, 6, 5, 4, 3, 2>>
    /\ as_slice(config_space)
           = <<18, 52, 86, 120, 154, 188, 0, 0, 2, 0, 220, 5>>
    /\ guest_mac = MacOption("mac1")

\* C12: when write_config has returned from a write that lies within the
\* config block and covers the MAC-address region, the block holds the
\* written bytes and guest_mac is the MAC of the block.
C12_MacWriteIsStored ==
    (/\ pc = "idle"
     /\ cfg_call.st = "returned"
     /\ cfg_call.offset = 0
     /\ Len(cfg_call.data) >= 6
     /\ Len(cfg_call.data) <= Len(as_slice(config_space)))
        => /\ SubSeq(as_slice(config_space), 1, Len(cfg_call.data))
                 = cfg_call.data
           /\ guest_mac = [some |-> TRUE, mac |-> config_space.guest_mac]

----------------------------------------------------------------------------
(* Properties of the device, continued *)

\* C13: a successfully constructed device has len(queues) = len(queue_evts)
\* = len(queue_sizes) and, the list being of even length, len(taps) =
\* len(queue_sizes)/2; it starts Inactive with acked_features 0 and no
\* handles; and len(queue_evts) = len(queues) in every state thereafter.
C13_ConstructedShape ==
    /\ [](Constructed => Len(queue_evts) = Len(queues))
    /\ [][(pc = "new" /\ pc' = "idle")
            => /\ new_result' = Ok
               /\ Len(queues') = Len(queue_sizes)
               /\ Len(queue_evts') = Len(queue_sizes)
               /\ (Len(queue_sizes) % 2 = 0)
                     => Len(taps') * 2 = Len(queue_sizes)
               /\ device_state' = Inactive
               /\ acked_features' = {}
               /\ handles' = << >>]_vars

C13_Witness ==
    /\ pc = "idle"
    /\ new_result = Ok
    /\ Len(queue_sizes) = 4
    /\ Len(queues) = 4
    /\ Len(queue_evts) = 4
    /\ Len(taps) = 2
    /\ Len(handles) = 2
    /\ do_result = Ok

\* C14: when activate has returned from an activation in which all queue
\* pairs were set up, the activation event has been written.
C14_ActivationIsSignalled ==
    (pc = "idle" /\ do_result = Ok) => activate_evt > 0

\* C15: whenever no activate is running, len(handles) is 0 or len(taps),
\* also after an activate in which creating a handle failed part-way.
C15_HandlesAllOrNone ==
    (Constructed /\ pc \in {"idle", "panicked"})
        => (Len(handles) = 0 \/ Len(handles) = Len(taps))


\* the calls setup_vhost_backend issued in the latest activate, by position
SetupCalls == {k \in DOMAIN calls : calls[k].op # "new"}

\* an earlier call `op` on the queue pair of call k succeeded
Before(k, op) ==
    \E j \in 1..(k - 1) :
        calls[j].op = op /\ calls[j].idx = calls[k].idx /\ calls[j].ok

\* C16: within an activation, set_owner has succeeded on a handle before
\* get_features or set_features is called on it, get_features has returned
\* before set_features is called, and the tap offload of a queue pair is set
\* only after set_features succeeded on its handle.
C16_PerHandleOrder ==
    Constructed =>
        \A k \in SetupCalls :
            /\ calls[k].op \in {"get_features", "set_features"}
                  => Before(k, "set_owner")
            /\ calls[k].op = "set_features" => Before(k, "get_features")
            /\ calls[k].op = "set_offload" => Before(k, "set_features")

C16_Witness ==
    /\ pc = "idle"
    /\ Len(taps) = 2
    /\ Len(calls) = 8
    /\ CreatedNow = {}
    /\ LifecycleDone(0)
    /\ LifecycleDone(1)

ActivateStep ==
    \/ pc \in {"create", "set_owner", "get_features", "set_features",
               "set_offload"}
    \/ pc = "idle" /\ pc' # "idle"

\* C18: activate, whether it succeeds or fails, leaves the rate limiters and
\* the interrupt-status word unchanged, and also avail_features,
\* acked_features, queues, queue_evts, config_space and guest_mac.
C18_ActivateFrame ==
    [][ActivateStep
          => UNCHANGED <<rx_rate_limiter, tx_rate_limiter, irq_status,
                         avail_features, acked_features, queues, queue_evts,
                         config_space, guest_mac>>]_vars

C18_Witness ==
    /\ pc = "idle"
    /\ do_result = Err("VhostError", <<"set_offload", 1>>)
    /\ acked_features # {}
    /\ handles[2].features_set
    /\ handles[2].features # acked_features
    /\ rx_rate_limiter = "rx" /\ tx_rate_limiter = "tx" /\ irq_status = 0

\* C19: in any sequence of activate calls, every access handles[idx] and
\* taps[idx] of setup_vhost_backend has idx < len(handles) and
\* idx < len(taps): the index panic is never reached.
C19_IndexInRange ==
    Constructed =>
        /\ pc # "panicked"
        /\ pc \in {"set_owner", "get_features", "set_features", "set_offload"}
              => (idx < Len(handles) /\ idx < Len(taps))

====
